---- MODULE Spec2Model ----
(***************************************************************************)
(* Physics-Builder-3d: the excitation controller (App.tsx), the floor      *)
(* (Scene.tsx), the structure generator (Building.tsx) and the drag        *)
(* controller (Interaction part of Building.tsx).                          *)
(*                                                                         *)
(* Units.  Durations and timer delays are milliseconds.  quakePower is in  *)
(* tenths (0.5 -> 5, 1 -> 10, 1.2 -> 12, 1.4 -> 14).  The P-wave ratio is  *)
(* the fraction PWaveRatioNum(k) / Den; the two computed phase durations  *)
(* are kept as numerators over Den (milliseconds * Den), so no rounding is *)
(* introduced by the model; JavaScript doubles are modelled as exact       *)
(* rationals.  Floor coordinates are in units of 1e-5, trigonometric       *)
(* samples and Math.random() samples in thousandths.  The generator's      *)
(* lengths are in hundredths, its masses in tenths and its damping in      *)
(* hundredths.                                                             *)
(***************************************************************************)
EXTENDS Integers, FiniteSets, Sequences, TLC

\* ---------------------------------------------------------------- bounds
\* Math.random() in handleEarthquake is drawn from {0, 1/RandSteps, ...,
\* (RandSteps-1)/RandSteps}, a grid on [0, 1).
RandSteps == 2
\* handleRebuild increments resetKey without limit; the model stops at this.
MaxResets == 2
\* Floor.timeRef grows without limit while quaking; frames that would pass
\* MaxQuakeTicks * Speed are not taken.
MaxQuakeTicks == 1
\* The story counts the generator is run on are 0 .. MaxStories.
MaxStories == 12

\* ------------------------------------------------------ program constants
RestY == -110000
PWavePower == 5
PWaveThreshold == 14
Speed == 25
PWaveSoundPad == 500
FadeOutLead == 1500
DefaultDurationBank == 30
DefaultDurationOther == 15
SliderMaxApartment == 30
SliderMaxBank == 60

\* ------------------------------------------------------------ input sets
Den == 100 * RandSteps
StepMs == 5000
Types == {"simple", "apartment", "bank"}
Presets == { [stories |-> 4, type |-> "simple"],
             [stories |-> 5, type |-> "simple"],
             [stories |-> 12, type |-> "apartment"],
             [stories |-> 10, type |-> "bank"] }
SliderSamples == {1}
Powers == {10, 12, 14}
Bodies == {"ball", "block"}
HitOffsets == {1}
RandSamples == {0}
Deltas == {1}
TimerIds == 1 .. 6
NoTimer == 0
NoDrag == [ref |-> "none", pivot |-> 0]
NoAudio == [ctx |-> FALSE, dur |-> 0, power |-> 0, started |-> FALSE]
Rest == <<0, RestY, 0>>
NoGen == [type |-> "simple", stories |-> 0, level |-> 0, out |-> {}]
NoProbe == [run |-> FALSE, quaking |-> FALSE, t |-> 0, p |-> 10, q |-> 10,
            r1 |-> 0, r2 |-> 0, r3 |-> 0, poseP |-> Rest, poseQ |-> Rest]
\* The inputs Floor's frame is computed on: the four powers the controls
\* produce, one period of the motion, and low, middle and high noise samples.
ProbePowers == {5, 10, 12, 14}
ProbeTimes == { i * Speed : i \in 0 .. 7 }
ProbeRands == {0, 500, 999}

VARIABLES
  config,          \* App: config {stories, type}
  resetKey,        \* App: resetKey, the key of <Scene>
  isQuaking,       \* App: isQuaking
  quakePower,      \* App: quakePower, in tenths
  isPaused,        \* App: isPaused
  customDuration,  \* App: customDuration, seconds
  timeoutRef,      \* App: timeoutRef.current (a timer id, NoTimer for null)
  pWaveTimeoutRef, \* App: pWaveTimeoutRef.current
  timers,          \* host: the pending setTimeout callbacks
  audio,           \* App: the sound owned by audioContextRef.current
  floorPos,        \* Scene/Floor: position of the kinematic floor body
  timeRef,         \* Scene/Floor: timeRef.current, in units of pi/10 rad
  orbitEnabled,    \* Scene: orbitEnabled
  dragState,       \* DragProvider: dragState ({ref, pivot} or null)
  cursor,          \* physics world: the CursorConstraint body and constraint
  bodyFlip,        \* physics world: whether the bodies have turned over
  elapsed,         \* history: milliseconds since the last trigger
  quake,           \* history: the last handleEarthquake call and what followed
  dragHist,        \* history: the last drag-controller event
  audioEnv,        \* host: what the browser's Web Audio does ("ok", "missing", "throws")
  gen,             \* Building: the structure generator, one story at a time
  probe            \* Floor: one frame computed for two powers side by side

vars == << config, resetKey, isQuaking, quakePower, isPaused, customDuration,
           timeoutRef, pWaveTimeoutRef, timers, audio, floorPos, timeRef,
           orbitEnabled, dragState, cursor, bodyFlip, elapsed, quake, dragHist,
           audioEnv, gen, probe >>

appVars == << config, resetKey, isQuaking, quakePower, isPaused,
              customDuration, timeoutRef, pWaveTimeoutRef, timers, audio >>
quakeVars == << isQuaking, quakePower, timeoutRef, pWaveTimeoutRef, timers,
                audio >>
sceneVars == << floorPos, timeRef, orbitEnabled, dragState, cursor, bodyFlip >>
dragVars == << orbitEnabled, dragState, cursor >>
histVars == << elapsed, quake, dragHist >>
quakeHist == << elapsed, quake >>
envVars == << audioEnv, gen, probe >>

NoQuake == [op |-> "init", was |-> "none", d |-> 0, power |-> 0, two |-> FALSE,
            pDurN |-> 0, sDurN |-> 0, pFired |-> 0, pAt |-> -1, endAt |-> -1,
            paused |-> FALSE]

\* The phase of the excitation controller.
Phase ==
  IF ~isQuaking THEN "inactive"
  ELSE IF ~quake.two THEN "single"
  ELSE IF quake.pFired = 0 THEN "pwave" ELSE "swave"

\* ------------------------------------------------------------ host timers
\* setTimeout returns an id no live reference holds: the smallest id that is
\* neither pending nor stored in one of the two refs.
FreshId(used) == CHOOSE i \in TimerIds : i \notin used /\ \A j \in 1 .. (i - 1) : j \in used

\* clearTimeout(id): the callback with that id, if still pending, is dropped.
ClearTimeout(ts, id) == { t \in ts : t.id # id }

\* setTimeout converts its delay to an integer number of milliseconds.
TimerDelay(durN) == durN \div Den

MinRemaining(ts) == CHOOSE m \in { t.remaining : t \in ts } : \A t \in ts : m <= t.remaining

TimerIdsOf(ts) == { t.id : t \in ts }

\* --------------------------------------------------------------- App.tsx
StopEarthquakeSound == audio' = NoAudio

\* gain.setValueAtTime(volume, ctx.currentTime + durationSec - 1.5) on a
\* context whose clock reads 0: a negative time is a RangeError.
EnvelopeThrows(durN) == durN < FadeOutLead * Den

\* playEarthquakeSound(duration, power); duration is a numerator over Den.
\* The old sound is stopped first.  No AudioContext class: return.  The
\* constructor throws: nothing is stored.  The envelope throws: the context
\* is stored but noise.start() is never reached.
PlayEarthquakeSound(durN, power) ==
  audio' = IF audioEnv = "missing" \/ audioEnv = "throws"
             THEN NoAudio
             ELSE [ctx |-> TRUE, dur |-> durN, power |-> power,
                   started |-> ~EnvelopeThrows(durN)]

\* A playEarthquakeSound without its try/catch.
PlayRaisesUncaught(durN) == audioEnv = "throws" \/ (audioEnv = "ok" /\ EnvelopeThrows(durN))

\* Whether playEarthquakeSound raises into its caller: the catch at
\* App.tsx:101 takes every exception of the setup and logs it.
PlayRaises(durN) == FALSE

\* A ratio of 0.30 + Math.random() * 0.40.
PWaveRatioNumWide(k) == 30 * RandSteps + 40 * k

\* A ratio of 0.10 + Math.random() * 0.03.
PWaveRatioNumLow(k) == 10 * RandSteps + 3 * k

\* Math.random() = k / RandSteps; pWaveRatio = 0.30 + Math.random() * 0.10.
PWaveRatioNum(k) == 30 * RandSteps + 10 * k

PWaveDurationN(d, k) == d * PWaveRatioNum(k)

\* An S-wave that is given the whole duration.
SWaveDurationNWhole(d, k) == d * Den

SWaveDurationN(d, k) == d * Den - PWaveDurationN(d, k)

\* A two-phase test that ignores the power.
TwoPhaseAnyPower(type, power) == type = "bank"

TwoPhase(type, power) == type = "bank" /\ power >= PWaveThreshold

\* A reset to 15 seconds whatever the type.
DefaultDurationFlat(type) == DefaultDurationOther

DefaultDuration(type) == IF type = "bank" THEN DefaultDurationBank ELSE DefaultDurationOther

\* A remount that keeps the old floor body.
RemountKeepFloor ==
  /\ UNCHANGED << floorPos, timeRef >>
  /\ orbitEnabled' = TRUE
  /\ dragState' = NoDrag
  /\ cursor' = FALSE
  /\ bodyFlip' = FALSE
  /\ dragHist' = IF dragState = NoDrag THEN "remount" ELSE "remountLive"

\* A remount that keeps the old DragProvider and Scene state.
RemountKeepDrag ==
  /\ floorPos' = Rest
  /\ timeRef' = 0
  /\ UNCHANGED << orbitEnabled, dragState, cursor >>
  /\ bodyFlip' = FALSE
  /\ dragHist' = IF dragState = NoDrag THEN "remount" ELSE "remountLive"

\* <Scene key={resetKey}>: a new key unmounts the scene and mounts a fresh
\* one: Floor, the draggable bodies, DragProvider and Scene state restart.
Remount ==
  /\ floorPos' = Rest
  /\ timeRef' = 0
  /\ orbitEnabled' = TRUE
  /\ dragState' = NoDrag
  /\ cursor' = FALSE
  /\ bodyFlip' = FALSE
  /\ dragHist' = IF dragState = NoDrag THEN "remount" ELSE "remountLive"

\* A rebuild that clears the phase-transition timer only.
RebuildTimersPWaveOnly == ClearTimeout(timers, pWaveTimeoutRef)

\* A rebuild that clears the end-of-quake timer only.
RebuildTimersEndOnly == ClearTimeout(timers, timeoutRef)

RebuildTimers == ClearTimeout(ClearTimeout(timers, timeoutRef), pWaveTimeoutRef)

HandleRebuild ==
  /\ resetKey < MaxResets
  /\ StopEarthquakeSound
  /\ resetKey' = resetKey + 1
  /\ isQuaking' = FALSE
  /\ isPaused' = FALSE
  /\ timers' = RebuildTimers
  /\ UNCHANGED << quakePower, timeoutRef, pWaveTimeoutRef >>
  /\ Remount
  /\ elapsed' = 0
  /\ quake' = [NoQuake EXCEPT !.op = "rebuild", !.was = Phase]
  /\ UNCHANGED envVars

\* The Rebuild button.
ClickRebuild ==
  /\ HandleRebuild
  /\ UNCHANGED << config, customDuration >>

\* handleConfigChange, then the effect on [config.type].
HandleConfigChange(c) ==
  /\ c \in Presets
  /\ config' = c
  /\ HandleRebuild
  /\ customDuration' = IF c.type # config.type THEN DefaultDuration(c.type) ELSE customDuration

\* A trigger that forgets to clear the timers of the running quake.
ClearExistingTimersNot == timers

\* App.tsx:125-127, "Clear any existing timers".
ClearExistingTimers == ClearTimeout(ClearTimeout(timers, timeoutRef), pWaveTimeoutRef)

HandleEarthquake(d, p, k) ==
  LET cleared == ClearExistingTimers
      two == TwoPhase(config.type, p)
      pid == FreshId(TimerIdsOf(cleared) \cup {timeoutRef, pWaveTimeoutRef})
      eid == IF two THEN FreshId(TimerIdsOf(cleared) \cup {timeoutRef, pid})
                    ELSE FreshId(TimerIdsOf(cleared) \cup {timeoutRef, pWaveTimeoutRef})
      pT == [id |-> pid, kind |-> "pwave",
             remaining |-> TimerDelay(PWaveDurationN(d, k)), power |-> p,
             sDurN |-> SWaveDurationN(d, k), epoch |-> resetKey]
      eT == [id |-> eid, kind |-> "end", remaining |-> d, power |-> 0,
             sDurN |-> 0, epoch |-> resetKey]
  IN /\ isQuaking' = TRUE
     /\ IF two
          THEN /\ quakePower' = PWavePower
               /\ PlayEarthquakeSound(PWaveDurationN(d, k) + PWaveSoundPad * Den, PWavePower)
               /\ IF PlayRaises(PWaveDurationN(d, k) + PWaveSoundPad * Den)
                    THEN timers' = cleared /\ UNCHANGED << timeoutRef, pWaveTimeoutRef >>
                    ELSE /\ pWaveTimeoutRef' = pid
                         /\ timeoutRef' = eid
                         /\ timers' = cleared \cup {pT, eT}
          ELSE /\ quakePower' = p
               /\ PlayEarthquakeSound(d * Den, p)
               /\ IF PlayRaises(d * Den)
                    THEN timers' = cleared /\ UNCHANGED timeoutRef
                    ELSE /\ timeoutRef' = eid
                         /\ timers' = cleared \cup {eT}
               /\ UNCHANGED pWaveTimeoutRef
     /\ elapsed' = 0
     /\ quake' = [op |-> "trigger", was |-> Phase, d |-> d, power |-> p, two |-> two,
                  pDurN |-> IF two THEN PWaveDurationN(d, k) ELSE 0,
                  sDurN |-> IF two THEN SWaveDurationN(d, k) ELSE 0,
                  pFired |-> 0, pAt |-> -1, endAt |-> -1, paused |-> FALSE]
     /\ UNCHANGED << config, resetKey, isPaused, customDuration, sceneVars, dragHist,
                     envVars >>

\* M6.9 buttons that are never disabled.
ClickQuakeAlways(d, k) ==
  /\ d \in {5000, 10000}
  /\ HandleEarthquake(d, 10, k)

\* The two M6.9 buttons: disabled={isQuaking}.
ClickQuake(d, k) ==
  /\ d \in {5000, 10000}
  /\ ~isQuaking
  /\ HandleEarthquake(d, 10, k)

\* The M7.5 panel is rendered for the apartment type only.
ClickCustomApartment(k) ==
  /\ config.type = "apartment"
  /\ ~isQuaking
  /\ HandleEarthquake(customDuration * 1000, 12, k)

\* An M7.9 panel rendered for every type.
ClickCustomBankAnyType(k) ==
  /\ ~isQuaking
  /\ HandleEarthquake(customDuration * 1000, 14, k)

\* The M7.9 panel is rendered for the bank type only.
ClickCustomBank(k) ==
  /\ config.type = "bank"
  /\ ~isQuaking
  /\ HandleEarthquake(customDuration * 1000, 14, k)

\* The duration slider of whichever custom panel is rendered.
SlideDuration(v) ==
  /\ \/ config.type = "apartment" /\ v <= SliderMaxApartment
     \/ config.type = "bank" /\ v <= SliderMaxBank
  /\ v >= 1
  /\ customDuration' = v
  /\ UNCHANGED << config, resetKey, isPaused, quakeVars, sceneVars, histVars, envVars >>

\* A pause that also cancels the pending callbacks.
TogglePauseCancelsTimers ==
  /\ isPaused' = ~isPaused
  /\ timers' = {}
  /\ UNCHANGED << config, resetKey, customDuration, isQuaking, quakePower, timeoutRef,
                  pWaveTimeoutRef, audio, sceneVars, histVars, envVars >>

\* The Pause button, App.tsx:246: setIsPaused(!isPaused).
TogglePause ==
  /\ isPaused' = ~isPaused
  /\ UNCHANGED << config, resetKey, customDuration, quakeVars, sceneVars, histVars,
                  envVars >>

\* The callback armed at App.tsx:145.
PWaveTimerFires ==
  \E t \in timers :
    /\ t.kind = "pwave"
    /\ t.remaining = 0
    /\ timers' = timers \ {t}
    /\ quakePower' = t.power
    /\ PlayEarthquakeSound(t.sDurN, t.power)
    /\ quake' = [quake EXCEPT !.op = "pwave", !.pFired = @ + 1, !.pAt = elapsed,
                             !.paused = isPaused]
    /\ UNCHANGED << config, resetKey, isQuaking, isPaused, customDuration,
                    timeoutRef, pWaveTimeoutRef, sceneVars, elapsed, dragHist,
                    envVars >>

\* The callbacks armed at App.tsx:151 and App.tsx:159.  Callbacks due at the
\* same instant run in the order they were armed, the P-wave one first.
EndTimerFires ==
  \E t \in timers :
    /\ t.kind = "end"
    /\ t.remaining = 0
    /\ ~ \E u \in timers : u.kind = "pwave" /\ u.remaining = 0
    /\ timers' = timers \ {t}
    /\ isQuaking' = FALSE
    /\ quake' = [quake EXCEPT !.op = "end", !.endAt = elapsed, !.paused = isPaused]
    /\ UNCHANGED << config, resetKey, quakePower, isPaused, customDuration,
                    timeoutRef, pWaveTimeoutRef, audio, sceneVars, elapsed,
                    dragHist, envVars >>

\* dt milliseconds pass; no pending callback is overdue.
Advance(dt) ==
  /\ timers # {}
  /\ dt > 0
  /\ dt <= MinRemaining(timers)
  /\ timers' = { [t EXCEPT !.remaining = @ - dt] : t \in timers }
  /\ elapsed' = elapsed + dt
  /\ UNCHANGED << config, resetKey, isQuaking, quakePower, isPaused,
                  customDuration, timeoutRef, pWaveTimeoutRef, audio,
                  sceneVars, quake, dragHist, envVars >>

\* ------------------------------------------------------------- Scene.tsx
\* sin(t), cos(0.9 t) and sin(1.5 t) in thousandths at t = timeRef * pi/10;
\* a frame's delta is a whole number of pi/10 seconds, so t is a multiple of
\* 2.5 pi and the three values repeat with period 8.
SinT(t) == << 0, 1000, 0, -1000, 0, 1000, 0, -1000 >>[((t \div Speed) % 8) + 1]

CosT09(t) == << 1000, 707, 0, -707, -1000, -707, 0, 707 >>[((t \div Speed) % 8) + 1]

SinT15(t) == << 0, -707, -1000, -707, 0, 707, 1000, 707 >>[((t \div Speed) % 8) + 1]

IntensityX(power) == 10 * power

IntensityY(power) == 4 * power

NoiseFactor(power) == 6 * power

\* A vertical noise of 0.3 * quakePower * quakePower.
NoiseFactorYSquared(power) == (3 * power * power) \div 10

\* The vertical noise factor, 0.3 * quakePower.
NoiseFactorY(power) == 3 * power

\* The pose Floor.useFrame sets while quaking; r1, r2, r3 are the three
\* Math.random() results, in thousandths.
QuakePose(t, power, r1, r2, r3) ==
  << SinT(t) * IntensityX(power) + (r1 - 500) * NoiseFactor(power),
     RestY + SinT15(t) * IntensityY(power) + (r3 - 500) * NoiseFactorY(power),
     CosT09(t) * IntensityX(power) + (r2 - 500) * NoiseFactor(power) >>

\* The pose one frame gives the floor: api.position.set(...) in either branch.
FloorPose(quaking, t, power, r1, r2, r3) ==
  IF quaking THEN QuakePose(t, power, r1, r2, r3) ELSE Rest

\* A frame that accumulates time whether or not a quake is active.
FrameAlwaysTicks(delta, r1, r2, r3) ==
  /\ timeRef + delta * Speed <= MaxQuakeTicks * Speed
  /\ timeRef' = timeRef + delta * Speed
  /\ floorPos' = FloorPose(isQuaking, timeRef', quakePower, r1, r2, r3)
  /\ UNCHANGED << appVars, orbitEnabled, dragState, cursor, bodyFlip, histVars,
                  envVars >>

\* Floor.useFrame, one rendered frame.
Frame(delta, r1, r2, r3) ==
  /\ IF isQuaking
       THEN /\ timeRef + delta * Speed <= MaxQuakeTicks * Speed
            /\ timeRef' = timeRef + delta * Speed
       ELSE UNCHANGED timeRef
  /\ floorPos' = FloorPose(isQuaking, timeRef', quakePower, r1, r2, r3)
  /\ UNCHANGED << appVars, orbitEnabled, dragState, cursor, bodyFlip, histVars,
                  envVars >>

\* The frame of probe's inputs, computed for its two powers.
ProbeFrame ==
  /\ ~probe.run
  /\ probe' = [probe EXCEPT
                 !.run = TRUE,
                 !.poseP = FloorPose(probe.quaking, probe.t, probe.p,
                                     probe.r1, probe.r2, probe.r3),
                 !.poseQ = FloorPose(probe.quaking, probe.t, probe.q,
                                     probe.r1, probe.r2, probe.r3)]
  /\ UNCHANGED << appVars, sceneVars, histVars, audioEnv, gen >>

\* <Physics isPaused={isPaused}>: a world step, which moves the dynamic
\* bodies (here: turns them over), is taken only while not paused.
PhysicsStep ==
  /\ ~isPaused
  /\ bodyFlip' = ~bodyFlip
  /\ UNCHANGED << appVars, floorPos, timeRef, dragVars, histVars, envVars >>

\* ---------------------------------------------------------- Building.tsx
PILLAR_HEIGHT == 350
SLAB_HEIGHT == 40
PILLAR_WIDTH_SIMPLE == 50
SLAB_WIDTH_SIMPLE == 500
OFFSET_SIMPLE == 220
PILLAR_WIDTH_APARTMENT == 70
GRID_SIZE == 400
BANK_GRID == 400
PILLAR_PHYSICS_WIDTH_BANK == 80
BEAM_HEIGHT_KINDA_BIG == 40
GAP == 5
WALL_THICKNESS == 40
WINDOW_THICKNESS == 15
WALL_LENGTH_APT == GRID_SIZE - PILLAR_WIDTH_APARTMENT - GAP
WALL_LENGTH_BANK_PHYSICS == BANK_GRID - PILLAR_PHYSICS_WIDTH_BANK - GAP
DebrisSize == 50
DefaultDamping == 1

\* The rigid body one <PhysicsBox> spawns; x and z are the loop indices of
\* its React key.
PhysicsBox(kind, level, x, z, position, args, mass, damping, material) ==
  [kind |-> kind, level |-> level, x |-> x, z |-> z, position |-> position,
   args |-> args, mass |-> mass, damping |-> damping, material |-> material]

\* A loop "for (let i = 0; i < n; i++)" that stops one short.
UpToShort(n) == 0 .. (n - 1)

\* The indices of a loop "for (let i = 0; i <= n; i++)".
UpTo(n) == 0 .. n

\* The indices of a loop "for (let i = 0; i < n; i++)".
Below(n) == 0 .. (n - 1)

StorySimple(level, yPos) ==
  LET pillarY == yPos + PILLAR_HEIGHT \div 2
      slabY == yPos + PILLAR_HEIGHT + SLAB_HEIGHT \div 2
      o == OFFSET_SIMPLE
      pillarMass == 5
      slabMass == 10
  IN { PhysicsBox("pillar", level, sx, sz, << sx * o, pillarY, sz * o >>,
                  << PILLAR_WIDTH_SIMPLE, PILLAR_HEIGHT, PILLAR_WIDTH_SIMPLE >>,
                  pillarMass, DefaultDamping, "pillarSimpleMaterial")
         : sx \in {1, -1}, sz \in {1, -1} }
     \cup
     { PhysicsBox("slab", level, 0, 0, << 0, slabY, 0 >>,
                  << SLAB_WIDTH_SIMPLE, SLAB_HEIGHT, SLAB_WIDTH_SIMPLE >>,
                  slabMass, DefaultDamping, "slabSimpleMaterial") }

StoryApartment(level, yPos, roomsX, roomsZ) ==
  LET isBasement == level = 0
      pillarY == yPos + PILLAR_HEIGHT \div 2
      startX == - ((roomsX * GRID_SIZE) \div 2)
      startZ == - ((roomsZ * GRID_SIZE) \div 2)
      pillarMass == IF isBasement THEN 500 ELSE 200
      slabMass == IF isBasement THEN 500 ELSE 200
      wallMass == IF isBasement THEN 500 ELSE 200
      damping == 5
      currentPillarMat == IF isBasement THEN "basementMaterial" ELSE "pillarMaterial"
      currentWallMat == IF isBasement THEN "basementMaterial" ELSE "bankWallMaterial"
      slabY == yPos + PILLAR_HEIGHT + BEAM_HEIGHT_KINDA_BIG \div 2
  IN { PhysicsBox("pillar", level, x, z,
                  << startX + x * GRID_SIZE, pillarY, startZ + z * GRID_SIZE >>,
                  << PILLAR_WIDTH_APARTMENT, PILLAR_HEIGHT, PILLAR_WIDTH_APARTMENT >>,
                  pillarMass, damping, currentPillarMat)
         : x \in UpTo(roomsX), z \in UpTo(roomsZ) }
     \cup
     { PhysicsBox("wallX", level, x, z,
                  << startX + x * GRID_SIZE + GRID_SIZE \div 2, pillarY,
                     startZ + z * GRID_SIZE >>,
                  << WALL_LENGTH_APT, PILLAR_HEIGHT, WALL_THICKNESS >>,
                  wallMass, damping, currentWallMat)
         : x \in Below(roomsX), z \in UpTo(roomsZ) }
     \cup
     { PhysicsBox("wallZ", level, x, z,
                  << startX + x * GRID_SIZE, pillarY,
                     startZ + z * GRID_SIZE + GRID_SIZE \div 2 >>,
                  << WALL_THICKNESS, PILLAR_HEIGHT, WALL_LENGTH_APT >>,
                  wallMass, damping, currentWallMat)
         : x \in UpTo(roomsX), z \in Below(roomsZ) }
     \cup
     { PhysicsBox("slab", level, x, z,
                  << startX + x * GRID_SIZE + GRID_SIZE \div 2, slabY,
                     startZ + z * GRID_SIZE + GRID_SIZE \div 2 >>,
                  << GRID_SIZE - GAP, BEAM_HEIGHT_KINDA_BIG, GRID_SIZE - GAP >>,
                  slabMass, damping,
                  IF isBasement THEN "basementMaterial" ELSE "slabMaterial")
         : x \in Below(roomsX), z \in Below(roomsZ) }
     \cup
     IF ~isBasement
       THEN { PhysicsBox("debris", level, x, z,
                         << startX + x * GRID_SIZE + GRID_SIZE \div 2, yPos + 50,
                            startZ + z * GRID_SIZE + GRID_SIZE \div 2 >>,
                         << DebrisSize, DebrisSize, DebrisSize >>,
                         50, 10, "debrisMaterial")
                : x \in Below(roomsX), z \in Below(roomsZ) }
       ELSE {}

StoryBank(level, yPos) ==
  LET isBasement == level = 0
      GRID == BANK_GRID
      ROOMS_X == 4
      ROOMS_Z == 4
      startX == - ((ROOMS_X * GRID) \div 2)
      startZ == - ((ROOMS_Z * GRID) \div 2)
      pillarY == yPos + PILLAR_HEIGHT \div 2
      slabY == yPos + PILLAR_HEIGHT + BEAM_HEIGHT_KINDA_BIG \div 2
      mass == IF isBasement THEN 500 ELSE 200
      damping == 5
      Panel(axis, x, z, position, isOutside) ==
        IF isOutside
          THEN PhysicsBox("window" \o axis, level, x, z, position,
                          IF axis = "X"
                            THEN << WALL_LENGTH_BANK_PHYSICS, PILLAR_HEIGHT, WINDOW_THICKNESS >>
                            ELSE << WINDOW_THICKNESS, PILLAR_HEIGHT, WALL_LENGTH_BANK_PHYSICS >>,
                          50, 10, "glassMaterial")
          ELSE PhysicsBox("wall" \o axis, level, x, z, position,
                          IF axis = "X"
                            THEN << WALL_LENGTH_BANK_PHYSICS, PILLAR_HEIGHT, WALL_THICKNESS >>
                            ELSE << WALL_THICKNESS, PILLAR_HEIGHT, WALL_LENGTH_BANK_PHYSICS >>,
                          200, damping, "bankWallMaterial")
  IN { PhysicsBox("pillar", level, x, z,
                  << startX + x * GRID, pillarY, startZ + z * GRID >>,
                  << PILLAR_PHYSICS_WIDTH_BANK, PILLAR_HEIGHT, PILLAR_PHYSICS_WIDTH_BANK >>,
                  mass, damping,
                  IF isBasement THEN "basementMaterial" ELSE "pillarMaterial")
         : x \in UpTo(ROOMS_X), z \in UpTo(ROOMS_Z) }
     \cup
     { Panel("X", x, z,
             << startX + x * GRID + GRID \div 2, pillarY, startZ + z * GRID >>,
             z = 0 \/ z = ROOMS_Z)
         : x \in Below(ROOMS_X), z \in UpTo(ROOMS_Z) }
     \cup
     { Panel("Z", x, z,
             << startX + x * GRID, pillarY, startZ + z * GRID + GRID \div 2 >>,
             x = 0 \/ x = ROOMS_X)
         : x \in UpTo(ROOMS_X), z \in Below(ROOMS_Z) }
     \cup
     { PhysicsBox("slab", level, x, z,
                  << startX + x * GRID + GRID \div 2, slabY,
                     startZ + z * GRID + GRID \div 2 >>,
                  << GRID - GAP, BEAM_HEIGHT_KINDA_BIG, GRID - GAP >>,
                  mass, damping,
                  IF isBasement THEN "basementMaterial" ELSE "slabMaterial")
         : x \in Below(ROOMS_X), z \in Below(ROOMS_Z) }

GetGridDimensions == [x |-> 3, z |-> 3]

\* getFloorY: the loop adds one story height per level below levelIndex.
RECURSIVE GetFloorY(_, _)
GetFloorY(type, levelIndex) ==
  IF levelIndex = 0 THEN 0
  ELSE GetFloorY(type, levelIndex - 1)
       + (IF type = "bank" \/ type = "apartment"
            THEN PILLAR_HEIGHT + BEAM_HEIGHT_KINDA_BIG
            ELSE PILLAR_HEIGHT + SLAB_HEIGHT)

\* A building with a basement under every type.
TotalLevelsAllBasement(type, stories) == stories + 1

\* A building with no basement under any type.
TotalLevelsNoBasement(type, stories) == stories

TotalLevels(type, stories) ==
  IF type = "bank" \/ type = "apartment" THEN stories + 1 ELSE stories

\* The story Building renders at index i.
Story(type, i) ==
  IF type = "bank" THEN StoryBank(i, GetFloorY(type, i))
  ELSE IF type = "simple" THEN StorySimple(i, GetFloorY(type, i))
  ELSE StoryApartment(i, GetFloorY(type, i), GetGridDimensions.x, GetGridDimensions.z)

\* Array.from({ length: totalLevels }).map(...), one index per step.
GenDone == gen.level = TotalLevels(gen.type, gen.stories)

GenLevel ==
  /\ gen.level < TotalLevels(gen.type, gen.stories)
  /\ gen' = [gen EXCEPT !.level = @ + 1, !.out = @ \cup Story(gen.type, gen.level)]
  /\ UNCHANGED << appVars, sceneVars, histVars, audioEnv, probe >>

\* ------------------------------------------- Interaction (Building.tsx)
SpawnX(b) == IF b = "ball" THEN 120 ELSE 22

\* Object3D.worldToLocal along one axis: the body sits at SpawnX and is
\* either upright or turned over.
WorldToLocal(b, w) == IF bodyFlip THEN SpawnX(b) - w ELSE w - SpawnX(b)

\* A startDrag that leaves the camera's orbit control on.
StartDragKeepsOrbit(ref, hitPoint) ==
  /\ dragState' = [ref |-> ref, pivot |-> hitPoint]
  /\ UNCHANGED orbitEnabled

StartDrag(ref, hitPoint) ==
  /\ dragState' = [ref |-> ref, pivot |-> hitPoint]
  /\ orbitEnabled' = FALSE

\* An endDrag that re-enables the camera but keeps the session.
EndDragKeepsSession ==
  /\ UNCHANGED dragState
  /\ orbitEnabled' = TRUE

EndDrag ==
  /\ dragState' = NoDrag
  /\ orbitEnabled' = TRUE

\* {dragState && <CursorConstraint .../>}: the cursor body and its
\* point-to-point constraint are mounted exactly when dragState is set.
RenderCursor == cursor' = (dragState' # NoDrag)

\* Draggable.onPointerDown on body b, hit at world point SpawnX(b) + off.
PointerDown(b, off) ==
  /\ StartDrag(b, WorldToLocal(b, SpawnX(b) + off))
  /\ RenderCursor
  /\ dragHist' = IF dragState = NoDrag THEN "down" ELSE "regrab"
  /\ UNCHANGED << appVars, floorPos, timeRef, bodyFlip, quakeHist, envVars >>

\* A pointer-up that also ends the quake.
PointerUpEndsQuake ==
  /\ EndDrag
  /\ RenderCursor
  /\ dragHist' = IF dragState = NoDrag THEN "upIdle" ELSE "up"
  /\ isQuaking' = FALSE
  /\ UNCHANGED << config, resetKey, quakePower, isPaused, customDuration, timeoutRef,
                  pWaveTimeoutRef, timers, audio, floorPos, timeRef, bodyFlip,
                  quakeHist, envVars >>

\* window 'pointerup' listener.
PointerUp ==
  /\ EndDrag
  /\ RenderCursor
  /\ dragHist' = IF dragState = NoDrag THEN "upIdle" ELSE "up"
  /\ UNCHANGED << appVars, floorPos, timeRef, bodyFlip, quakeHist, envVars >>

\* ---------------------------------------------------------- specification
\* The state of App and Scene after construction.
InitApp ==
  /\ config = [stories |-> 4, type |-> "simple"]
  /\ resetKey = 0
  /\ isQuaking = FALSE
  /\ quakePower = 10
  /\ isPaused = FALSE
  /\ customDuration = DefaultDurationOther
  /\ timeoutRef = NoTimer
  /\ pWaveTimeoutRef = NoTimer
  /\ timers = {}
  /\ audio = NoAudio
  /\ floorPos = Rest
  /\ timeRef = 0
  /\ orbitEnabled = TRUE
  /\ dragState = NoDrag
  /\ cursor = FALSE
  /\ bodyFlip = FALSE
  /\ elapsed = 0
  /\ quake = NoQuake
  /\ dragHist = "remount"

\* The application in a browser whose Web Audio works.
Init ==
  /\ InitApp
  /\ audioEnv = "ok"
  /\ gen = NoGen
  /\ probe = NoProbe

Rands == 0 .. (RandSteps - 1)

\* Time moves in steps of StepMs, or straight to the next due callback.
AdvanceSteps == IF timers = {} THEN {} ELSE {StepMs, MinRemaining(timers)}

Next ==
  \/ ClickRebuild
  \/ \E c \in Presets : HandleConfigChange(c)
  \/ \E d \in {5000, 10000}, k \in Rands : ClickQuake(d, k)
  \/ \E k \in Rands : ClickCustomApartment(k)
  \/ \E k \in Rands : ClickCustomBank(k)
  \/ \E v \in SliderSamples : SlideDuration(v)
  \/ TogglePause
  \/ PWaveTimerFires
  \/ EndTimerFires
  \/ \E dt \in AdvanceSteps : Advance(dt)
  \/ \E delta \in Deltas, r1, r2, r3 \in RandSamples : Frame(delta, r1, r2, r3)
  \/ PhysicsStep
  \/ \E b \in Bodies, off \in HitOffsets : PointerDown(b, off)
  \/ PointerUp

Spec == Init /\ [][Next]_vars

\* The excitation controller on its own, with handleEarthquake callable in
\* any state: the handler as written, without the buttons' disabled={isQuaking}.
DirectTrigger ==
  \E d \in {5000, 10000} \cup { v * 1000 : v \in SliderSamples }, p \in Powers, k \in Rands :
    HandleEarthquake(d, p, k)

NextDirect ==
  \/ DirectTrigger
  \/ ClickRebuild
  \/ \E c \in Presets : HandleConfigChange(c)
  \/ PWaveTimerFires
  \/ EndTimerFires
  \/ \E dt \in AdvanceSteps : Advance(dt)

SpecDirect == Init /\ [][NextDirect]_vars

\* The controls and the timers in each of the three audio environments.
InitAudio ==
  /\ InitApp
  /\ audioEnv \in {"ok", "missing", "throws"}
  /\ gen = NoGen
  /\ probe = NoProbe

NextAudio ==
  \/ ClickRebuild
  \/ \E c \in Presets : HandleConfigChange(c)
  \/ \E d \in {5000, 10000}, k \in Rands : ClickQuake(d, k)
  \/ \E k \in Rands : ClickCustomApartment(k)
  \/ \E k \in Rands : ClickCustomBank(k)
  \/ \E v \in SliderSamples : SlideDuration(v)
  \/ PWaveTimerFires
  \/ EndTimerFires
  \/ \E dt \in AdvanceSteps : Advance(dt)

SpecAudio == InitAudio /\ [][NextAudio]_vars

\* The structure generator on every building type and story count.
InitGen ==
  /\ InitApp
  /\ audioEnv = "ok"
  /\ probe = NoProbe
  /\ \E type \in Types, stories \in 0 .. MaxStories :
       gen = [type |-> type, stories |-> stories, level |-> 0, out |-> {}]

NextGen == GenLevel

SpecGen == InitGen /\ [][NextGen]_vars

\* Floor's frame as a function of its inputs.
InitFloor ==
  /\ InitApp
  /\ audioEnv = "ok"
  /\ gen = NoGen
  /\ \E quaking \in BOOLEAN, t \in ProbeTimes, p, q \in ProbePowers,
        r1, r2, r3 \in ProbeRands :
       probe = [run |-> FALSE, quaking |-> quaking, t |-> t, p |-> p, q |-> q,
                r1 |-> r1, r2 |-> r2, r3 |-> r3, poseP |-> Rest, poseQ |-> Rest]

NextFloor == ProbeFrame

SpecFloor == InitFloor /\ [][NextFloor]_vars

\* ------------------------------------------------------------ properties
PendingOf(kind) == { t \in timers : t.kind = kind }

\* The timers a fresh handleEarthquake call leaves pending: one end-of-quake
\* timer due d ms after the call and, on the two-phase path only, one
\* phase-transition timer due at the P-wave duration.
FreshlyArmed ==
  /\ Cardinality(PendingOf("end")) = 1
  /\ \A t \in PendingOf("end") : t.remaining = quake.d - elapsed
  /\ Cardinality(PendingOf("pwave")) = IF quake.two /\ quake.pFired = 0 THEN 1 ELSE 0
  /\ \A t \in PendingOf("pwave") : t.remaining = TimerDelay(quake.pDurN) - elapsed

\* C1 as stated: a handleEarthquake call made while a quake is active leaves
\* isQuaking, quakePower and both pending timers as they were.
C1_TriggerWhileActiveIsNoOp ==
  [][(isQuaking /\ DirectTrigger) => UNCHANGED << isQuaking, quakePower, timers >>]_vars

\* C1 amended: a handleEarthquake call made while a quake is active restarts
\* the quake: the timers of the running quake are cancelled, isQuaking stays
\* true, quakePower is that of the new request (0.5 on the two-phase path) and
\* the only pending timers are the new request's, counted from the new call.
C1_TriggerWhileActiveRestarts ==
  [][(isQuaking /\ DirectTrigger) =>
       /\ isQuaking'
       /\ elapsed' = 0
       /\ quakePower' = IF quake'.two THEN PWavePower ELSE quake'.power
       /\ timers' \cap timers = {}
       /\ FreshlyArmed']_vars

C1_Witness == quake.op = "trigger" /\ quake.was = "pwave" /\ isQuaking

\* C2: after a rebuild, whatever phase it interrupted, and until the next
\* trigger, isQuaking is false and the floor is at its rest pose (0, -1.1, 0).
C2_RebuildLeavesRest ==
  quake.op = "rebuild" => ~isQuaking /\ floorPos = Rest /\ Phase = "inactive"

C2_Witness == quake.op = "rebuild" /\ quake.was = "swave" /\ floorPos = Rest

\* C3: a rebuild leaves no timer pending, and no timer armed before a rebuild
\* is pending after it, so none can fire into a later quake.
C3_RebuildCancelsTimers ==
  /\ quake.op = "rebuild" => timers = {}
  /\ \A t \in timers : t.epoch = resetKey

C3_Witness == quake.op = "rebuild" /\ quake.was = "pwave" /\ timers = {}

\* The last trigger and its quake, while no rebuild has replaced the record.
Tracked == quake.op \in {"trigger", "pwave", "end"}

\* The path the last trigger was meant to take, in the claims' own terms.
SinglePath == Tracked /\ (config.type # "bank" \/ quake.power < PWaveThreshold)

TwoPath == Tracked /\ config.type = "bank" /\ quake.power >= PWaveThreshold

\* C4: a trigger(d, p) off the two-phase path runs one phase: until the end
\* timer fires, d ms after the trigger, isQuaking is true, quakePower is p and
\* only the end-of-quake timer is pending; it fires at exactly d and leaves
\* isQuaking false.
C4_SinglePhase ==
  SinglePath =>
    /\ quake.op # "pwave"
    /\ quake.op = "trigger" =>
         /\ isQuaking
         /\ quakePower = quake.power
         /\ elapsed <= quake.d
         /\ PendingOf("pwave") = {}
         /\ Cardinality(PendingOf("end")) = 1
         /\ \A t \in PendingOf("end") : t.remaining = quake.d - elapsed
    /\ quake.op = "end" =>
         /\ ~isQuaking
         /\ quake.endAt = quake.d
         /\ quakePower = quake.power
         /\ timers = {}

C4_Witness ==
  /\ SinglePath /\ quake.op = "end"
  /\ quake.d = 10000 /\ quake.power = 10 /\ quake.endAt = 10000

\* C5: a bank trigger with power >= 1.4 runs the P-wave at 0.5 until the
\* one-shot transition, which fires once, at no less than 30% and less than
\* 40% of the duration and before the end; from then to the end timer
\* quakePower is the requested power.
C5_TwoPhases ==
  TwoPath =>
    /\ quake.op = "trigger" =>
         /\ isQuaking /\ quakePower = PWavePower /\ quake.pFired = 0
         /\ Cardinality(PendingOf("pwave")) = 1
         /\ Cardinality(PendingOf("end")) = 1
    /\ quake.op = "pwave" =>
         /\ isQuaking /\ quakePower = quake.power /\ quake.pFired = 1
         /\ PendingOf("pwave") = {}
         /\ Cardinality(PendingOf("end")) = 1
    /\ quake.op = "end" =>
         /\ ~isQuaking /\ quakePower = quake.power /\ quake.pFired = 1
         /\ quake.pAt < quake.endAt
    /\ quake.pFired > 0 =>
         /\ 30 * quake.d <= 100 * quake.pAt
         /\ 100 * quake.pAt < 40 * quake.d
         /\ quake.pAt < quake.d

C5_Witness == TwoPath /\ quake.op = "pwave" /\ quakePower = 14 /\ elapsed > quake.pAt

\* C6: on the two-phase path the P-wave and S-wave durations the handler
\* computes add up to the requested duration, whatever the duration and the
\* random ratio; the S-wave sound is given that remainder, and the end timer
\* fires at exactly the requested duration.
C6_PhasesSumToTotal ==
  TwoPath =>
    /\ quake.pDurN + quake.sDurN = quake.d * Den
    /\ \A t \in PendingOf("pwave") :
         t.remaining + elapsed = TimerDelay(quake.d * Den - t.sDurN)
    /\ quake.op = "pwave" =>
         /\ audio.dur + quake.pDurN = quake.d * Den
         /\ quake.pAt = TimerDelay(quake.pDurN)
    /\ quake.op = "end" => quake.endAt = quake.d

C6_Witness == TwoPath /\ quake.op = "end" /\ quake.d = 1000 /\ quake.pAt > 300

\* C7 as stated: for trigger(30000, 1.4) on the bank type the P-wave lasts a
\* time in [3000, 4000) ms.
C7_PWaveWindow3000 ==
  (TwoPath /\ quake.d = 30000 /\ quake.pFired > 0) =>
    3000 <= quake.pAt /\ quake.pAt < 4000

\* C7 amended: for trigger(30000, 1.4) on the bank type the P-wave lasts a
\* time in [9000, 12000) ms, 30 to 40% of 30000, and the S-wave runs for the
\* remainder: the two add up to 30000 ms and the quake ends at 30000 ms.
C7_PWaveWindow9000 ==
  (TwoPath /\ quake.d = 30000) =>
    /\ quake.pFired > 0 => 9000 <= quake.pAt /\ quake.pAt < 12000
    /\ quake.pDurN + quake.sDurN = 30000 * Den
    /\ quake.op = "end" => quake.pFired = 1 /\ quake.endAt = 30000

C7_Witness ==
  /\ TwoPath /\ quake.d = 30000 /\ quake.power = 14
  /\ quake.op = "end" /\ quake.pAt > 9000

\* C8: the drag controller is Idle or Grabbing with a single session: a
\* pointer-down from Idle creates the session, a pointer-up destroys it, a
\* pointer-up while Idle changes nothing, and the cursor body and its
\* constraint exist exactly while the session is live.
C8_DragStateMachine ==
  /\ [](cursor <=> dragState # NoDrag)
  /\ [](dragHist \in {"down", "regrab"} => dragState.ref \in Bodies /\ cursor)
  /\ [](dragHist \in {"up", "upIdle"} => dragState = NoDrag /\ ~cursor)
  /\ [][dragHist' = "upIdle" => UNCHANGED dragVars]_vars

C8_Witness == dragHist = "up" /\ dragState = NoDrag /\ ~cursor

\* C9 as stated: between the pointer-down that starts a session and the
\* pointer-up (or remount) that ends it, no event changes the session's
\* grabbed body or pivot.
C9_SessionFixed ==
  [][(dragState # NoDrag /\ dragHist' \notin {"up", "remountLive"}) =>
       dragState' = dragState]_vars

\* C10: a rebuild or type change during Grabbing drops the session: no
\* session, cursor body or constraint is left, camera orbit is enabled, and a
\* pointer-up that follows changes nothing.
C10_RemountDropsSession ==
  /\ [](dragHist = "remountLive" => dragState = NoDrag /\ ~cursor /\ orbitEnabled)
  /\ [][(dragHist = "remountLive" /\ dragHist' = "upIdle") => UNCHANGED dragVars]_vars

C10_Witness == dragHist = "remountLive" /\ resetKey > 0 /\ dragState = NoDrag

\* C11: the pause toggle changes isPaused and nothing of the quake: isQuaking,
\* quakePower, the two timer refs and the pending timers stay as they were.
\* The dynamic bodies move only in steps taken while not paused.  In every
\* paused state a frame of the floor can still run, a due phase-transition
\* or end-of-quake callback can still fire and time still passes for the
\* pending timers, while no physics step can be taken; the callbacks that
\* fired did so at their scheduled times.
C11_PauseSuspendsOnlyPhysics ==
  /\ [][/\ (isPaused' # isPaused /\ resetKey' = resetKey) =>
             UNCHANGED << isQuaking, quakePower, timeoutRef, pWaveTimeoutRef, timers,
                          floorPos, timeRef >>
        /\ (bodyFlip' # bodyFlip /\ resetKey' = resetKey) => ~isPaused]_vars
  /\ [](isPaused =>
         /\ ~ ENABLED PhysicsStep
         /\ (isQuaking => timeRef + Speed <= MaxQuakeTicks * Speed) =>
              ENABLED (\E delta \in Deltas, r1, r2, r3 \in RandSamples : Frame(delta, r1, r2, r3))
         /\ (\E t \in PendingOf("pwave") : t.remaining = 0) => ENABLED PWaveTimerFires
         /\ (/\ \E t \in PendingOf("end") : t.remaining = 0
             /\ \A t \in PendingOf("pwave") : t.remaining > 0) => ENABLED EndTimerFires
         /\ (timers # {} /\ MinRemaining(timers) > 0) =>
              ENABLED Advance(MinRemaining(timers))
         /\ (quake.paused /\ quake.op = "end") => quake.endAt = quake.d
         /\ (quake.paused /\ quake.op = "pwave") => quake.pAt = TimerDelay(quake.pDurN))

\* The end timer of a two-phase quake fired, on time, during a pause that is
\* still on.
C11_Witness ==
  /\ isPaused /\ quake.paused /\ quake.op = "end" /\ quake.two
  /\ quake.endAt = quake.d /\ elapsed = quake.d

\* C12: when the browser has no AudioContext class, or the audio setup
\* throws, no sound is started and nothing is raised into the handler, and
\* the quake runs as it does with sound: after the trigger isQuaking is true,
\* quakePower is the request's (0.5 on the two-phase path) and the timers are
\* armed; after the transition quakePower is the requested power; the end
\* timer fires at the requested duration and leaves isQuaking false.
C12_AudioFailureIsSilent ==
  /\ audioEnv # "ok" => audio = NoAudio
  /\ (audio.ctx /\ EnvelopeThrows(audio.dur)) => ~audio.started
  /\ Tracked =>
       /\ quake.op = "trigger" =>
            /\ isQuaking
            /\ quakePower = IF quake.two THEN PWavePower ELSE quake.power
            /\ FreshlyArmed
       /\ quake.op = "pwave" =>
            /\ isQuaking /\ quakePower = quake.power
            /\ FreshlyArmed
       /\ quake.op = "end" =>
            /\ ~isQuaking /\ timers = {}
            /\ quake.endAt = quake.d

\* A two-phase quake that ran to its end in a browser whose AudioContext
\* constructor throws.
C12_Witness ==
  /\ audioEnv = "throws" /\ audio = NoAudio
  /\ quake.op = "end" /\ quake.two /\ quake.pFired = 1 /\ quake.endAt = quake.d

AtLevel(l) == { b \in gen.out : b.level = l }

OfKind(l, kinds) == { b \in AtLevel(l) : b.kind \in kinds }

\* A body without its level and height: its place in the story's layout.
Layout(b) == [kind |-> b.kind, x |-> b.x, z |-> b.z, px |-> b.position[1],
              pz |-> b.position[3], args |-> b.args, mass |-> b.mass,
              damping |-> b.damping, material |-> b.material]

\* C13: the simple type generates no more than n levels, each of four
\* pillars (mass 0.5) and one slab (mass 1.0), so 5 bodies per level and 5 n
\* when done; no body has the basement mass or material, and level 0 has the
\* masses and the layout of every other level.
C13_SimpleFivePerStory ==
  gen.type = "simple" =>
    /\ gen.level <= gen.stories
    /\ GenDone => gen.level = gen.stories /\ Cardinality(gen.out) = 5 * gen.stories
    /\ Cardinality(gen.out) = 5 * gen.level
    /\ \A l \in 0 .. (gen.level - 1) :
         /\ Cardinality(OfKind(l, {"pillar"})) = 4
         /\ Cardinality(OfKind(l, {"slab"})) = 1
         /\ Cardinality(AtLevel(l)) = 5
         /\ { Layout(b) : b \in AtLevel(l) } = { Layout(b) : b \in AtLevel(0) }
    /\ \A b \in gen.out :
         /\ b.mass = IF b.kind = "pillar" THEN 5 ELSE 10
         /\ b.material # "basementMaterial"

C13_Witness ==
  /\ gen.type = "simple" /\ gen.stories = 4 /\ GenDone
  /\ Cardinality(gen.out) = 20

\* C14: an apartment is built on a 3x3 grid, each level of 16 pillars, 24
\* walls and 9 slabs, with 9 debris cubes on every level but level 0, and has
\* n + 1 levels and 49 + 58 n bodies when done; a bank is built on a 4x4
\* grid, each level of 25 pillars, 40 wall or window panels and 16 slabs and
\* no debris, and has n + 1 levels and 81 (n + 1) bodies when done.
C14_GridCounts ==
  /\ gen.type = "apartment" =>
       /\ gen.level <= gen.stories + 1
       /\ GenDone => /\ gen.level = gen.stories + 1
                     /\ Cardinality(gen.out) = 49 + 58 * gen.stories
       /\ \A l \in 0 .. (gen.level - 1) :
            /\ Cardinality(OfKind(l, {"pillar"})) = 16
            /\ Cardinality(OfKind(l, {"wallX", "wallZ"})) = 24
            /\ Cardinality(OfKind(l, {"slab"})) = 9
            /\ Cardinality(OfKind(l, {"debris"})) = IF l = 0 THEN 0 ELSE 9
            /\ Cardinality(AtLevel(l)) = IF l = 0 THEN 49 ELSE 58
            /\ { b.x : b \in OfKind(l, {"slab"}) } = 0 .. 2
            /\ { b.z : b \in OfKind(l, {"slab"}) } = 0 .. 2
  /\ gen.type = "bank" =>
       /\ gen.level <= gen.stories + 1
       /\ GenDone => /\ gen.level = gen.stories + 1
                     /\ Cardinality(gen.out) = 81 * (gen.stories + 1)
       /\ \A l \in 0 .. (gen.level - 1) :
            /\ Cardinality(OfKind(l, {"pillar"})) = 25
            /\ Cardinality(OfKind(l, {"wallX", "wallZ", "windowX", "windowZ"})) = 40
            /\ Cardinality(OfKind(l, {"slab"})) = 16
            /\ OfKind(l, {"debris"}) = {}
            /\ Cardinality(AtLevel(l)) = 81
            /\ { b.x : b \in OfKind(l, {"slab"}) } = 0 .. 3
            /\ { b.z : b \in OfKind(l, {"slab"}) } = 0 .. 3

\* The 12-story apartment preset, fully generated.
C14_Witness ==
  /\ gen.type = "apartment" /\ gen.stories = 12 /\ GenDone
  /\ Cardinality(gen.out) = 745

\* C15 as stated: in an apartment or a bank every body of level 0 has the
\* basement mass 50, 2.5 times the mass of the same element on a level
\* above, and the basement material, and is not debris; no body of a level
\* above 0 has the basement mass or the basement material.
C15_BasementHeavy ==
  gen.type \in {"apartment", "bank"} =>
    \A b \in gen.out :
      IF b.level = 0
        THEN /\ b.mass = 500
             /\ b.material = "basementMaterial"
             /\ b.kind # "debris"
             /\ \A c \in gen.out :
                  (c.level > 0 /\ c.kind = b.kind /\ c.x = b.x /\ c.z = b.z) =>
                    2 * b.mass = 5 * c.mass
        ELSE b.mass # 500 /\ b.material # "basementMaterial"

\* C16 as stated: with storyCount = 0 the finished output is empty, whatever
\* the type.
C16_ZeroStoriesEmpty ==
  (gen.stories = 0 /\ GenDone) => gen.out = {}

\* C16 amended: with storyCount = 0 the simple type generates nothing, and
\* the apartment and the bank generate their basement alone, level 0 with 49
\* and 81 bodies.
C16_ZeroStoriesBasementOnly ==
  (gen.stories = 0 /\ GenDone) =>
    /\ gen.type = "simple" => gen.out = {}
    /\ gen.type = "apartment" => Cardinality(gen.out) = 49
    /\ gen.type = "bank" => Cardinality(gen.out) = 81
    /\ \A b \in gen.out : b.level = 0

C16_Witness ==
  /\ gen.type = "bank" /\ gen.stories = 0 /\ GenDone
  /\ gen.level = 1 /\ Cardinality(gen.out) = 81

\* C17: while isQuaking no trigger control can be clicked, and while not
\* quaking the M6.9 buttons can; every quake was triggered while none was
\* active, and at most one end timer and one transition timer are pending;
\* isQuaking turns false only by the end timer firing or by a rebuild.
C17_TriggersDisabledWhileQuaking ==
  /\ [](/\ isQuaking =>
            /\ ~ ENABLED (\E d \in {5000, 10000}, k \in Rands : ClickQuake(d, k))
            /\ ~ ENABLED (\E k \in Rands : ClickCustomApartment(k))
            /\ ~ ENABLED (\E k \in Rands : ClickCustomBank(k))
        /\ ~isQuaking => ENABLED (\E d \in {5000, 10000}, k \in Rands : ClickQuake(d, k))
        /\ Tracked => quake.was = "inactive"
        /\ Cardinality(PendingOf("end")) <= 1
        /\ Cardinality(PendingOf("pwave")) <= 1)
  /\ [][(isQuaking /\ ~isQuaking') => quake'.op \in {"end", "rebuild"}]_vars

\* A second quake, triggered after the end timer of the first one fired.
C17_Witness ==
  /\ isQuaking /\ quake.op = "trigger" /\ quake.was = "inactive"
  /\ resetKey = 0 /\ timeoutRef > 1

\* C18: a trigger of power 1.2 is made only on an apartment and a trigger of
\* power 1.4 only on a bank; every trigger of power 1.4 or more takes the
\* two-phase path, every other the single-phase path; quakePower is always
\* one of 0.5, 1, 1.2 and 1.4, and 0.5 only in a two-phase quake.
C18_CustomTriggersGatedByType ==
  /\ quakePower \in {5, 10, 12, 14}
  /\ Tracked =>
       /\ quake.power \in {10, 12, 14}
       /\ quake.power = 12 => config.type = "apartment"
       /\ quake.power = 14 => config.type = "bank"
       /\ quake.two <=> quake.power >= PWaveThreshold
       /\ quake.two => quake.pDurN > 0
       /\ quakePower = PWavePower => quake.two
       /\ quakePower \in {PWavePower, quake.power}
  /\ \A t \in PendingOf("pwave") : t.power = 14

\* The S-wave of an M7.9 quake on the bank.
C18_Witness ==
  /\ config.type = "bank" /\ quake.op = "pwave" /\ quake.power = 14
  /\ quakePower = 14 /\ isQuaking

\* The offset of a pose from the rest pose, along axis i.
Offset(pose, i) == pose[i] - Rest[i]

\* The three offsets of the floor are proportional to quakePower.
LinearInPower ==
  \A i \in 1 .. 3 : probe.p * Offset(probe.poseQ, i) = probe.q * Offset(probe.poseP, i)

\* The sine amplitudes, read at a peak of the sine with the noise at 0, and
\* the horizontal noise, read at a zero of the sine, are 1.0, 0.4 and 0.6
\* times quakePower.
SineAndHorizontalNoise ==
  /\ (probe.r1 = 500 /\ SinT(probe.t) = 1000) =>
       Offset(probe.poseP, 1) = 1000 * 10 * probe.p
  /\ (probe.r3 = 500 /\ SinT15(probe.t) = 1000) =>
       Offset(probe.poseP, 2) = 1000 * 4 * probe.p
  /\ SinT(probe.t) = 0 =>
       Offset(probe.poseP, 1) = (probe.r1 - 500) * 6 * probe.p

\* C19 as stated: while quaking the sine amplitudes and the horizontal noise
\* are proportional to quakePower and the vertical noise, read where the
\* vertical sine is 0, is proportional to its square; while not quaking the
\* frame sets the rest pose.
C19_VerticalNoiseQuadratic ==
  probe.run =>
    IF probe.quaking
      THEN /\ SineAndHorizontalNoise
           /\ SinT15(probe.t) = 0 =>
                probe.p * probe.p * Offset(probe.poseQ, 2)
                  = probe.q * probe.q * Offset(probe.poseP, 2)
      ELSE probe.poseP = Rest /\ probe.poseQ = Rest

\* C19 amended: while quaking the sine amplitudes, the horizontal noise and
\* the vertical noise, 0.3 times quakePower, are all proportional to
\* quakePower, and so is every offset of the floor; while not quaking the
\* frame sets the rest pose.
C19_AllLinearInPower ==
  probe.run =>
    IF probe.quaking
      THEN /\ SineAndHorizontalNoise
           /\ SinT15(probe.t) = 0 =>
                Offset(probe.poseP, 2) = (probe.r3 - 500) * 3 * probe.p
           /\ LinearInPower
      ELSE probe.poseP = Rest /\ probe.poseQ = Rest

\* Pure vertical noise at powers 0.5 and 1.4.
C19_Witness ==
  /\ probe.run /\ probe.quaking /\ probe.p = 5 /\ probe.q = 14
  /\ probe.r3 = 0 /\ SinT15(probe.t) = 0
  /\ Offset(probe.poseP, 2) = -7500 /\ Offset(probe.poseQ, 2) = -21000

\* C20: in every reachable state the pending timers are at most one
\* end-of-quake timer and at most one phase-transition timer; isQuaking is
\* true exactly when an end-of-quake timer is pending; a phase-transition
\* timer is pending only while isQuaking is true and quakePower is 0.5.
C20_TimerInvariants ==
  /\ timers = PendingOf("end") \cup PendingOf("pwave")
  /\ Cardinality(PendingOf("end")) <= 1
  /\ Cardinality(PendingOf("pwave")) <= 1
  /\ isQuaking <=> PendingOf("end") # {}
  /\ PendingOf("pwave") # {} => (isQuaking /\ quakePower = PWavePower)

\* A P-wave running, paused, after a rebuild and an earlier quake: both
\* timers pending.
C20_Witness ==
  /\ isQuaking /\ isPaused /\ resetKey > 1 /\ quakePower = PWavePower
  /\ Cardinality(PendingOf("end")) = 1 /\ Cardinality(PendingOf("pwave")) = 1
  /\ elapsed > 0

\* C21: in every reachable state orbitEnabled is true exactly when no drag
\* session is live: it is false after a pointer-down, true after a
\* pointer-up, and true with no session after a remount.
C21_OrbitIffNoSession ==
  /\ orbitEnabled <=> dragState = NoDrag
  /\ dragHist \in {"down", "regrab"} => (~orbitEnabled /\ dragState # NoDrag)
  /\ dragHist \in {"up", "upIdle"} => (orbitEnabled /\ dragState = NoDrag)
  /\ dragHist \in {"remount", "remountLive"} => (orbitEnabled /\ dragState = NoDrag)

\* A session started in the scene mounted by the second rebuild.
C21_Witness ==
  /\ dragHist = "down" /\ dragState # NoDrag /\ ~orbitEnabled /\ cursor
  /\ resetKey = 2

\* C22: a step of the drag controller (a pointer-down or a pointer-up)
\* leaves isQuaking, quakePower, the two timer refs and the pending timers
\* as they were; a step of the excitation controller (a trigger, a phase
\* transition, a quake end, the passing of time) or a pause toggle leaves the
\* session, the cursor body and the orbit control as they were; a rebuild
\* ends the quake, clears the timers and drops the session.
C22_DragAndQuakeIndependent ==
  [][/\ (resetKey' = resetKey /\ << dragVars, dragHist >>' # << dragVars, dragHist >>) =>
          UNCHANGED << isQuaking, quakePower, timeoutRef, pWaveTimeoutRef, timers,
                       isPaused, quake, elapsed >>
     /\ (/\ resetKey' = resetKey
         /\ << quakeVars, isPaused, quake, elapsed >>' # << quakeVars, isPaused, quake, elapsed >>) =>
          UNCHANGED << dragVars, dragHist >>
     /\ resetKey' # resetKey =>
          (~isQuaking' /\ timers' = {} /\ dragState' = NoDrag /\ ~cursor')]_vars

\* A session held while the end timer of a two-phase quake has just fired.
C22_Witness ==
  /\ dragState # NoDrag /\ dragHist = "down" /\ cursor
  /\ quake.op = "end" /\ quake.two /\ elapsed = quake.d /\ ~isQuaking

C24_RebuildUnpausesKeepsConfig ==
  [][/\ resetKey' # resetKey =>
          /\ ~isPaused'
          /\ resetKey' = resetKey + 1
          /\ config' = config => customDuration' = customDuration
          /\ config'.type = config.type => customDuration' = customDuration
          /\ config'.type # config.type =>
               customDuration' = IF config'.type = "bank" THEN 30 ELSE 15
     /\ (resetKey' = resetKey) => config' = config]_vars

\* The bank just selected from another type: unpaused, 30 seconds.
C24_Witness ==
  /\ quake.op = "rebuild" /\ config.type = "bank" /\ customDuration = 30
  /\ ~isPaused /\ resetKey > 0 /\ quake.was = "single"
====
